---- MODULE Spec2Model ----
(***************************************************************************)
(* The acquisition subsystem of cnpj-getter: CNPJDownloader                *)
(* (app/pipeline/download.py), CNPJMonthFinder                             *)
(* (app/orchestrator/find.py) and the CLI driver (main.py).                *)
(*                                                                         *)
(* Names are Python str values.  TLC cannot take a string apart, so every  *)
(* name the model uses is listed in Chars with its characters, and the str *)
(* methods (lower, startswith, endswith, isdigit, slicing) are computed on *)
(* those characters.                                                       *)
(***************************************************************************)
EXTENDS Integers, Sequences, FiniteSets, TLC

\* ------------------------------------------------------------------ str

Chars(n) ==
  CASE n = "Estabelecimentos0.zip" -> <<"E", "s", "t", "a", "b", "e", "l", "e", "c", "i", "m", "e", "n", "t", "o", "s", "0", ".", "z", "i", "p">>
    [] n = "Empresas1.ZIP" -> <<"E", "m", "p", "r", "e", "s", "a", "s", "1", ".", "Z", "I", "P">>
    [] n = "Cnaes.zip" -> <<"C", "n", "a", "e", "s", ".", "z", "i", "p">>
    [] n = "readme.txt" -> <<"r", "e", "a", "d", "m", "e", ".", "t", "x", "t">>
    [] n = "notes.zip" -> <<"n", "o", "t", "e", "s", ".", "z", "i", "p">>
    [] n = "empresas.csv" -> <<"e", "m", "p", "r", "e", "s", "a", "s", ".", "c", "s", "v">>
    [] n = "2024-01" -> <<"2", "0", "2", "4", "-", "0", "1">>
    [] n = "2024-02" -> <<"2", "0", "2", "4", "-", "0", "2">>
    [] n = "2023-12" -> <<"2", "0", "2", "3", "-", "1", "2">>
    [] n = "CNPJ" -> <<"C", "N", "P", "J">>
    [] n = "temp" -> <<"t", "e", "m", "p">>
    [] n = "2024-1" -> <<"2", "0", "2", "4", "-", "1">>
    [] n = "2024_01" -> <<"2", "0", "2", "4", "_", "0", "1">>
    [] n = "202a-01" -> <<"2", "0", "2", "a", "-", "0", "1">>
    [] n = "2024-0b" -> <<"2", "0", "2", "4", "-", "0", "b">>
    [] n = "LEIAME.pdf" -> <<"L", "E", "I", "A", "M", "E", ".", "p", "d", "f">>
    [] n = "estabelecimentos" -> <<"e", "s", "t", "a", "b", "e", "l", "e", "c", "i", "m", "e", "n", "t", "o", "s">>
    [] n = "empresas" -> <<"e", "m", "p", "r", "e", "s", "a", "s">>
    [] n = "cnae" -> <<"c", "n", "a", "e">>
    [] n = "municipios" -> <<"m", "u", "n", "i", "c", "i", "p", "i", "o", "s">>
    [] n = ".zip" -> <<".", "z", "i", "p">>
    [] n = "zip" -> <<"z", "i", "p">>
    [] n = "application/zip" -> <<"a", "p", "p", "l", "i", "c", "a", "t", "i", "o", "n", "/", "z", "i", "p">>
    [] n = "Application/X-ZIP-Compressed" -> <<"A", "p", "p", "l", "i", "c", "a", "t", "i", "o", "n", "/", "X", "-", "Z", "I", "P", "-", "C", "o", "m", "p", "r", "e", "s", "s", "e", "d">>
    [] n = "text/html" -> <<"t", "e", "x", "t", "/", "h", "t", "m", "l">>
    [] n = "" -> <<>>

UpperCase ==
  <<"A", "B", "C", "D", "E", "F", "G", "H", "I", "J", "K", "L", "M", "N", "O", "P", "Q", "R", "S", "T", "U", "V", "W", "X", "Y", "Z">>

LowerCase ==
  <<"a", "b", "c", "d", "e", "f", "g", "h", "i", "j", "k", "l", "m", "n", "o", "p", "q", "r", "s", "t", "u", "v", "w", "x", "y", "z">>

Digits ==
  {"0", "1", "2", "3", "4", "5", "6", "7", "8", "9"}

\* str.lower() of one character, then of a str
lower_char(c) ==
  IF \E i \in 1..Len(UpperCase) : UpperCase[i] = c
    THEN LowerCase[CHOOSE i \in 1..Len(UpperCase) : UpperCase[i] = c]
    ELSE c

lower(s) ==
  [i \in 1..Len(s) |-> lower_char(s[i])]

startswith(s, p) ==
  Len(s) >= Len(p) /\ SubSeq(s, 1, Len(p)) = p

endswith(s, p) ==
  Len(s) >= Len(p) /\ SubSeq(s, Len(s) - Len(p) + 1, Len(s)) = p

\* str.isdigit(): false on the empty str
isdigit(s) ==
  Len(s) > 0 /\ \A i \in 1..Len(s) : s[i] \in Digits

\* ------------------------------------------------------- relevance filter

\* CNPJDownloader._is_relevant_zip
is_relevant_zip_noprefix(name) ==
  TRUE

is_relevant_zip(name) ==
  LET n == lower(Chars(name))
  IN  \/ startswith(n, Chars("estabelecimentos"))
      \/ startswith(n, Chars("empresas"))
      \/ startswith(n, Chars("cnae"))
      \/ startswith(n, Chars("municipios"))

\* the test of _list_month_zips on one href name
keep_zip(name) ==
  endswith(lower(Chars(name)), Chars(".zip")) /\ is_relevant_zip(name)

\* the zip_names list built from the href names of one response
parse_zip_names(hrefs) ==
  SelectSeq(hrefs, keep_zip)


\* ------------------------------------------------------------ constants

\* download_month: max_rounds
max_rounds == 5

\* _list_month_zips(month, retries=5)
list_retries_more ==
  5 + 1

list_retries == 5

\* _download_file(url, out_path, retries=3)
file_retries_more ==
  3 + 1

file_retries == 3

\* CNPJDownloader.__init__(..., max_workers=2)
max_workers_more ==
  2 + 1

max_workers == 2

\* time.sleep(10) between rounds
round_sleep == 10

\* wait = 3.0 * (attempt ** 2), in both retry loops
backoff_linear(attempt) ==
  3 * attempt

backoff(attempt) ==
  3 * attempt * attempt

\* ---------------------------------------------------------------- bounds

\* the longest body the remote serves, in chunks of resp.read(1024 * 1024)
BodyChunks == 1

\* how many times download_month is called, for the same month, in one behaviour
MaxCalls == 2

\* how many GETs of one call the remote answers with an accepted content type
\* and an empty body
MaxEmptyBodies == 1

\* ----------------------------------------------------------- environment

Months == {"2024-01", "2024-02"}

\* what the month's remote directory may hold (its children, in listing order)
RemoteStates ==
  { <<"readme.txt">>,
    <<"Estabelecimentos0.zip", "notes.zip">>,
    <<"Estabelecimentos0.zip", "readme.txt", "Empresas1.ZIP", "notes.zip", "empresas.csv">> }

\* a month directory with more expected files than the pool has workers
FanStates ==
  { <<"Cnaes.zip", "Estabelecimentos0.zip", "readme.txt", "Empresas1.ZIP">> }

AllRemoteStates == RemoteStates \cup FanStates

FileNames ==
  {"Estabelecimentos0.zip", "Empresas1.ZIP", "Cnaes.zip", "readme.txt", "notes.zip",
   "empresas.csv"}

\* the Content-Type headers a GET may answer with
ContentTypes == {"application/zip", "Application/X-ZIP-Compressed", "text/html", ""}

\* sub in s
contains(s, sub) ==
  \E i \in 1..(Len(s) - Len(sub) + 1) : SubSeq(s, i, i + Len(sub) - 1) = sub

\* "zip" in content_type, content_type being the header's .lower()
ct_has_zip(ct) ==
  contains(lower(Chars(ct)), Chars("zip"))

\* the content types the check of _download_file accepts
AcceptedTypes == {ct \in ContentTypes : ct_has_zip(ct)}

RefusedTypes == ContentTypes \ AcceptedTypes

Range(s) == {s[i] : i \in 1..Len(s)}

\* ----------------------------------------------------------------- state

VARIABLES
  pc,             \* where the thread that runs download_month is
  calls,          \* calls of download_month so far
  month,          \* download_month's argument (the month this run is about)
  round,          \* round_num
  attempt,        \* attempt of the running _list_month_zips call
  listWaits,      \* the time.sleep(wait) calls of the running/last listing call
  resp,           \* href names of the latest answered PROPFIND of that call
  lastExc,        \* exc of the latest failed attempt of the running/last listing call
  remote,         \* children of the month's remote directory
  served,         \* what the month's remote directory may hold during this run
  fs,             \* local files: path -> [exists, size]
  tasks,          \* _download_once: tasks (names, in order of submission), latest round
  task,           \* name -> state of its future / its _download_file call
  downloaded,     \* _download_once: downloaded
  skipped,        \* _download_once: skipped
  downloaded_all, \* download_month: downloaded_all
  skipped_all,    \* download_month: skipped_all
  outcome,        \* how the last call of download_month ended
  slept,          \* time.sleep(10) calls of download_month in this call
  missing,        \* download_month: missing, of the latest re-check
  listCalls,      \* calls of _list_month_zips in this call
  present0,       \* the paths present when the call started
  emptyBodies,    \* answers with an empty body that were read to the end, this call
  hist,           \* what happened during this call (observations only)
  f_pc,           \* where get_updated_months is
  f_root,         \* the response elements the root PROPFIND is answered with
  f_now,          \* datetime.now(timezone.utc), in days
  f_cutoff,       \* get_updated_months: cutoff
  f_outcome,      \* how get_updated_months ended
  f_requests,     \* PROPFIND requests _list_month_folders has sent
  m_pc,           \* where main() is
  m_cmd,          \* main: cmd (sys.argv[1], "info" without it)
  m_months,       \* main: months
  m_i,            \* main: index in months of the month the loop is at
  m_k,            \* main: the next step of that month
  m_log,          \* the calls main made: <<operation, month, whether it raised>>
  m_exit          \* how main ended

findVars == <<f_pc, f_root, f_now, f_cutoff, f_outcome, f_requests>>

mainVars == <<m_pc, m_cmd, m_months, m_i, m_k, m_log, m_exit>>

vars ==
  <<pc, calls, month, round, attempt, listWaits, resp, lastExc, remote, served, fs, tasks,
    task,
    downloaded, skipped, downloaded_all, skipped_all, outcome, slept,
    missing, listCalls, present0, emptyBodies, hist, f_pc, f_root, f_now, f_cutoff,
    f_outcome, f_requests, m_pc, m_cmd, m_months, m_i, m_k, m_log, m_exit>>

Paths == Months \X FileNames

NoFile == [exists |-> FALSE, size |-> 0]

\* a file that is there and is not empty (what the spec calls present)
HasContent(f) == f.exists /\ f.size > 0

\* out_path.exists() and out_path.stat().st_size > 0
is_present_exists_only(f) ==
  f.exists

is_present_never(f) ==
  FALSE

is_present_inverted(f) ==
  ~(f.exists /\ f.size > 0)

is_present(f) ==
  f.exists /\ f.size > 0

\* month_dir / name
path_of(m, name) == <<m, name>>

NoOutcome == [kind |-> "none"]

\* DownloadResult(downloaded, skipped)
DownloadResult(d, s) ==
  [kind |-> "result", downloaded |-> d, skipped |-> s]

\* RuntimeError(f"Failed to list ZIPs for {month}") from exc
ListingError_nomonth(m, exc) ==
  [kind |-> "error", what |-> "listing", month |-> "", cause |-> exc]

ListingError(m, exc) ==
  [kind |-> "error", what |-> "listing", month |-> m, cause |-> exc]

\* RuntimeError(f"... Failed to fully download month {month} after {max_rounds} rounds")
IncompleteError(m) ==
  [kind |-> "error", what |-> "incomplete", month |-> m, rounds |-> max_rounds]

IdleTask == [st |-> "queued", attempt |-> 0, stage |-> "-", waits |-> <<>>]

\* a future that is done: st is "ok" (returned) or "err" (raised)
DoneTask(st) == [st |-> st, attempt |-> 0, stage |-> "-", waits |-> <<>>]

\* CNPJDownloader after __init__, nothing downloaded yet
InitDownloader ==
  /\ pc = "idle"
  /\ calls = 0
  /\ month \in Months
  /\ round = 0
  /\ attempt = 0
  /\ listWaits = <<>>
  /\ resp = <<>>
  /\ lastExc = ""
  /\ remote = <<>>
  /\ fs = [p \in Paths |-> NoFile]
  /\ tasks = <<>>
  /\ task = [n \in {} |-> IdleTask]
  /\ downloaded = <<>>
  /\ skipped = <<>>
  /\ downloaded_all = <<>>
  /\ skipped_all = <<>>
  /\ outcome = NoOutcome
  /\ slept = 0
  /\ missing = <<>>
  /\ listCalls = 0
  /\ present0 = {}
  /\ emptyBodies = 0
  /\ hist = {}


\* ------------------------------------------------------------- listing

\* what a PROPFIND attempt can raise before it has an answer to parse
ListExcs == {"URLError", "ParseError"}

InListing == pc \in {"once_list", "find_list"}

\* the href names of a Depth: 1 answer: the directory itself, then its children
hrefs_of(m, children) == <<m>> \o children

\* zip_names as _list_month_zips builds it from the answer for month m when
\* the directory holds r
ZipNamesOf ==
  [m \in Months, r \in AllRemoteStates |-> parse_zip_names(hrefs_of(m, r))]

\* _list_month_zips: if not zip_names: raise RuntimeError("No ZIPs found")
no_zips_never(zip_names) ==
  FALSE

no_zips(zip_names) ==
  zip_names = <<>>

\* _list_month_zips: except Exception as exc
list_except(exc) ==
  /\ lastExc' = exc
  /\ IF attempt = list_retries
       THEN /\ outcome' = ListingError(month, exc)
            /\ pc' = "done"
            /\ UNCHANGED <<attempt, listWaits>>
       ELSE /\ listWaits' = Append(listWaits, backoff(attempt))
            /\ attempt' = attempt + 1
            /\ UNCHANGED <<pc, outcome>>

\* _list_month_zips returned: its locals are gone
list_returned ==
  /\ attempt' = 0
  /\ listWaits' = <<>>
  /\ lastExc' = ""

\* download_month after _download_once returned: the call of _find_missing_zips
enter_find ==
  /\ pc' = "find_list"
  /\ attempt' = 1
  /\ listWaits' = <<>>
  /\ lastExc' = ""
  /\ listCalls' = listCalls + 1

\* _download_once after zip_names = self._list_month_zips(month)
once_after_list(zip_names) ==
  LET Present(n) == is_present(fs[path_of(month, n)])
      Absent(n)  == ~Present(n)
      here == SelectSeq(zip_names, Present)
      todo == SelectSeq(zip_names, Absent)
      skip == [i \in 1..Len(here) |-> path_of(month, here[i])]
  IN  IF todo = <<>>
        THEN /\ skipped_all' = skip
             /\ tasks' = <<>>
             /\ enter_find
             /\ UNCHANGED <<task, downloaded, skipped, downloaded_all, outcome>>
        ELSE /\ tasks' = todo
             /\ task' = [n \in Range(todo) |-> IdleTask]
             /\ skipped' = skip
             /\ downloaded' = <<>>
             /\ pc' = "fetch"
             /\ list_returned
             /\ UNCHANGED <<listCalls, downloaded_all, skipped_all, outcome>>

\* _find_missing_zips: not path.exists() or path.stat().st_size == 0
is_missing_absent_only(f) ==
  ~f.exists

is_missing(f) ==
  ~f.exists \/ f.size = 0

\* download_month: for round_num in range(1, max_rounds + 1) has no next value
last_round_never(r) ==
  FALSE

last_round(r) ==
  r = max_rounds

\* _find_missing_zips after expected = self._list_month_zips(month), and the
\* rest of the round in download_month
find_after_list(expected) ==
  LET Absent(n) == is_missing(fs[path_of(month, n)])
      miss == SelectSeq(expected, Absent)
  IN  /\ missing' = miss
      /\ IF miss = <<>>
           THEN /\ outcome' = DownloadResult(downloaded_all, skipped_all)
                /\ pc' = "done"
                /\ list_returned
                /\ UNCHANGED <<round, listCalls, slept>>
           ELSE /\ slept' = slept + 1
                /\ IF last_round(round)
                     THEN /\ outcome' = IncompleteError(month)
                          /\ pc' = "done"
                          /\ list_returned
                          /\ UNCHANGED <<round, listCalls>>
                     ELSE /\ round' = round + 1
                          /\ pc' = "once_list"
                          /\ attempt' = 1
                          /\ listWaits' = <<>>
                          /\ lastExc' = ""
                          /\ listCalls' = listCalls + 1
                          /\ UNCHANGED outcome

\* download_month(month), up to the first PROPFIND
Call ==
  /\ pc \in {"idle", "done"}
  /\ calls < MaxCalls
  /\ \E r \in served : remote' = r
  /\ present0' = {p \in Paths : p[1] = month /\ HasContent(fs[p])}
  /\ calls' = calls + 1
  /\ pc' = "once_list"
  /\ round' = 1
  /\ attempt' = 1
  /\ listWaits' = <<>>
  /\ listCalls' = 1
  /\ resp' = <<>>
  /\ lastExc' = ""
  /\ tasks' = <<>>
  /\ task' = [n \in {} |-> IdleTask]
  /\ downloaded' = <<>>
  /\ skipped' = <<>>
  /\ downloaded_all' = <<>>
  /\ skipped_all' = <<>>
  /\ outcome' = NoOutcome
  /\ slept' = 0
  /\ missing' = <<>>
  /\ emptyBodies' = 0
  /\ hist' = {}
  /\ UNCHANGED <<month, fs>>
  /\ UNCHANGED served
  /\ UNCHANGED findVars
  /\ UNCHANGED mainVars

\* one attempt of _list_month_zips that raises before zip_names is built
ListFail ==
  /\ InListing
  /\ \E exc \in ListExcs : list_except(exc)
  /\ UNCHANGED <<calls, month, round, resp, remote, fs, tasks, task, downloaded,
                 skipped, downloaded_all, skipped_all, slept,
                 missing, listCalls, present0, emptyBodies, hist>>
  /\ UNCHANGED served
  /\ UNCHANGED findVars
  /\ UNCHANGED mainVars

\* one attempt of _list_month_zips that gets an answer and parses it; the
\* answer shows the directory as it is at that moment (r), which may differ
\* from what it was before
ListAnswer ==
  /\ InListing
  /\ \E r \in served :
       /\ remote' = r
       /\ hist' = IF r # remote THEN hist \cup {"remote_changed"} ELSE hist
       /\ resp' = hrefs_of(month, r)
       /\ LET zip_names == ZipNamesOf[month, r]
          IN  IF no_zips(zip_names)
                THEN /\ list_except("NoZips")
                     /\ UNCHANGED <<round, tasks, task, downloaded, skipped,
                                    downloaded_all, skipped_all, slept, missing, listCalls>>
                ELSE IF pc = "once_list"
                  THEN /\ once_after_list(zip_names)
                       /\ UNCHANGED <<round, slept, missing>>
                  ELSE /\ find_after_list(zip_names)
                       /\ UNCHANGED <<tasks, task, downloaded, skipped,
                                      downloaded_all, skipped_all>>
  /\ UNCHANGED <<calls, month, fs, present0, emptyBodies>>
  /\ UNCHANGED served
  /\ UNCHANGED findVars
  /\ UNCHANGED mainVars

\* ------------------------------------------------------------ transfers

Running == {n \in DOMAIN task : task[n].st = "running"}

Finished == {n \in DOMAIN task : task[n].st \in {"ok", "err"}}

\* the executor's work queue is first in, first out
NextQueued(n) ==
  /\ n \in DOMAIN task
  /\ task[n].st = "queued"
  /\ \A i, j \in 1..Len(tasks) :
       (tasks[j] = n /\ i < j) => task[tasks[i]].st # "queued"

\* what the with block of out_path.open("wb") leaves after k chunks were written
written(k) == [exists |-> TRUE, size |-> k]

\* _download_file, except clause: if out_path.exists(): out_path.unlink()
unlink_if_exists(f) ==
  IF f.exists THEN NoFile ELSE f

\* _download_file: the except clause of one attempt that raised one of
\* URLError, TimeoutError, ConnectionResetError, RuntimeError, the file being f
file_except(n, f) ==
  /\ fs' = [fs EXCEPT ![path_of(month, n)] = unlink_if_exists(f)]
  /\ IF task[n].attempt = file_retries
       THEN /\ task' = [task EXCEPT ![n] = DoneTask("err")]
            /\ hist' = hist \cup {"fetch_failed"}
       ELSE /\ task' = [task EXCEPT ![n].attempt = @ + 1,
                                    ![n].waits = Append(@, backoff(task[n].attempt))]
            /\ UNCHANGED hist

\* a worker thread of the pool takes the next submitted task
XferStart(n) ==
  /\ pc = "fetch"
  /\ NextQueued(n)
  /\ Cardinality(Running) < max_workers
  /\ task' = [task EXCEPT ![n] = [st |-> "running", attempt |-> 1,
                                  stage |-> "-", waits |-> <<>>]]
  /\ UNCHANGED <<pc, calls, month, round, attempt, listWaits, resp, lastExc, remote, fs,
                 tasks, downloaded, skipped, downloaded_all, skipped_all,
                 outcome, slept, missing, listCalls, present0,
                 emptyBodies, hist>>
  /\ UNCHANGED served
  /\ UNCHANGED findVars
  /\ UNCHANGED mainVars

\* an attempt whose urlopen raises (URLError, TimeoutError): no answer, nothing
\* written
XferConnFail(n) ==
  /\ n \in Running
  /\ file_except(n, fs[path_of(month, n)])
  /\ UNCHANGED <<pc, calls, month, round, attempt, listWaits, resp, lastExc, remote,
                 tasks, downloaded, skipped, downloaded_all, skipped_all,
                 outcome, slept, missing, listCalls, present0,
                 emptyBodies>>
  /\ UNCHANGED served
  /\ UNCHANGED findVars
  /\ UNCHANGED mainVars

\* an attempt answered with a content type without "zip": RuntimeError before
\* the file is opened
XferBadType(n) ==
  /\ n \in Running
  /\ \E ct \in RefusedTypes :
       /\ file_except(n, fs[path_of(month, n)])
  /\ UNCHANGED <<pc, calls, month, round, attempt, listWaits, resp, lastExc, remote,
                 tasks, downloaded, skipped, downloaded_all, skipped_all,
                 outcome, slept, missing, listCalls, present0,
                 emptyBodies>>
  /\ UNCHANGED served
  /\ UNCHANGED findVars
  /\ UNCHANGED mainVars

\* an attempt answered with an accepted content type whose body of k chunks is
\* read to its end: the file is opened "wb", the chunks are written, resp.read
\* returns b"" and _download_file returns; the as_completed loop appends
XferOk(n) ==
  /\ n \in Running
  /\ \E ct \in AcceptedTypes, k \in 0..BodyChunks :
       /\ k = 0 => emptyBodies < MaxEmptyBodies
       /\ emptyBodies' = IF k = 0 THEN emptyBodies + 1 ELSE emptyBodies
       /\ fs' = [fs EXCEPT ![path_of(month, n)] = written(k)]
  /\ task' = [task EXCEPT ![n] = DoneTask("ok")]
  /\ downloaded' = Append(downloaded, path_of(month, n))
  /\ UNCHANGED <<pc, calls, month, round, attempt, listWaits, resp, lastExc, remote,
                 tasks, skipped, downloaded_all, skipped_all, outcome, slept, missing, listCalls, present0, hist>>
  /\ UNCHANGED served
  /\ UNCHANGED findVars
  /\ UNCHANGED mainVars

\* an attempt answered with an accepted content type whose resp.read raises
\* one of the caught exceptions (TimeoutError, ConnectionResetError, URLError)
\* after k chunks were written
XferMidCaught(n) ==
  /\ n \in Running
  /\ \E ct \in AcceptedTypes, k \in 0..BodyChunks :
       /\ file_except(n, written(k))
  /\ UNCHANGED <<pc, calls, month, round, attempt, listWaits, resp, lastExc, remote,
                 tasks, downloaded, skipped, downloaded_all, skipped_all,
                 outcome, slept, missing, listCalls, present0,
                 emptyBodies>>
  /\ UNCHANGED served
  /\ UNCHANGED findVars
  /\ UNCHANGED mainVars

\* an attempt answered with an accepted content type whose resp.read or
\* f.write raises, after k chunks were written, an exception the except clause
\* does not name (http.client.IncompleteRead, ssl.SSLError, another OSError):
\* it leaves _download_file at once and the as_completed loop logs it
XferMidOther(n) ==
  /\ n \in Running
  /\ \E ct \in AcceptedTypes, k \in 0..BodyChunks :
       /\ fs' = [fs EXCEPT ![path_of(month, n)] = written(k)]
  /\ task' = [task EXCEPT ![n] = DoneTask("err")]
  /\ hist' = hist \cup {"fetch_failed"}
  /\ UNCHANGED <<pc, calls, month, round, attempt, listWaits, resp, lastExc, remote,
                 tasks, downloaded, skipped, downloaded_all, skipped_all,
                 outcome, slept, missing, listCalls, present0,
                 emptyBodies>>
  /\ UNCHANGED served
  /\ UNCHANGED findVars
  /\ UNCHANGED mainVars

\* every future is done: the with blocks end, _download_once returns, and
\* download_month extends downloaded_all and goes on to _find_missing_zips
all_done_some ==
  Finished # {}

all_done ==
  Finished = DOMAIN task

FetchJoin ==
  /\ pc = "fetch"
  /\ all_done
  /\ downloaded_all' = downloaded_all \o downloaded
  /\ skipped_all' = skipped
  /\ enter_find
  /\ task' = [n \in {} |-> IdleTask]
  /\ downloaded' = <<>>
  /\ skipped' = <<>>
  /\ UNCHANGED <<calls, month, round, resp, remote, fs, tasks, outcome, slept,
                 missing, present0, emptyBodies, hist>>
  /\ UNCHANGED served
  /\ UNCHANGED findVars
  /\ UNCHANGED mainVars

\* ------------------------------------------------------- month finder

\* CNPJMonthFinder.__init__(..., days_window=15)
days_window == 15

\* how many response elements the root listing has at most
MaxEntries == 3

\* names of the children of /Dados/Cadastros/CNPJ/ (and of the directory itself)
RootNames == {"CNPJ", "2023-12", "2024-01", "2024_01", "202a-01", "2024-1"}

\* the text of a getlastmodified property: a RFC 1123 date (ok, with the day
\* it names) or a text strptime refuses
Malformed == [ok |-> FALSE, day |-> 0]

Rfc1123(d) == [ok |-> TRUE, day |-> d]

\* the moment get_updated_months runs, in days
Today == 100

PropTexts ==
  {Malformed, Rfc1123(Today - days_window - 1), Rfc1123(Today - days_window),
   Rfc1123(Today)}

\* one response element: href (name: its last path segment), whether it has a
\* href at all, and getlastmodified (has_prop, text).  Elements of every kind
\* for the names of month shape; for the other names, elements with a recent
\* date and with a text strptime refuses
Entries ==
  [name : RootNames, has_href : {TRUE}, has_prop : {TRUE},
   text : {Malformed, Rfc1123(Today)}]
    \cup [name : {"2023-12", "2024-01"}, has_href : {TRUE}, has_prop : {TRUE},
          text : PropTexts]
    \cup [name : {"2023-12", "2024-01"}, has_href : {TRUE}, has_prop : {FALSE},
          text : {Rfc1123(Today)}]
    \cup [name : {"2023-12", "2024-01"}, has_href : {FALSE}, has_prop : {TRUE},
          text : {Rfc1123(Today)}]

\* a directory has no two children of the same name
DistinctNames(l) ==
  \A i, j \in 1..Len(l) : i # j => l[i].name # l[j].name

Listings ==
  {l \in UNION {[1..k -> Entries] : k \in 0..MaxEntries} : DistinctNames(l)}

\* code points of the characters month names are made of
ord(c) ==
  CASE c = "-" -> 45
    [] c = "0" -> 48 [] c = "1" -> 49 [] c = "2" -> 50 [] c = "3" -> 51
    [] c = "4" -> 52 [] c = "5" -> 53 [] c = "6" -> 54 [] c = "7" -> 55
    [] c = "8" -> 56 [] c = "9" -> 57
    [] c = "_" -> 95 [] c = "a" -> 97

\* a < b on str
RECURSIVE seq_lt(_, _)
seq_lt(a, b) ==
  IF b = <<>> THEN FALSE
  ELSE IF a = <<>> THEN TRUE
  ELSE IF ord(Head(a)) # ord(Head(b)) THEN ord(Head(a)) < ord(Head(b))
  ELSE seq_lt(Tail(a), Tail(b))

str_lt(a, b) == seq_lt(Chars(a), Chars(b))

\* CNPJMonthFinder._is_month_folder
is_month_folder_lenonly(name) ==
  Len(Chars(name)) = 7

is_month_folder(name) ==
  LET c == Chars(name)
  IN  IF Len(c) # 7 THEN FALSE
      ELSE c[5] = "-" /\ isdigit(SubSeq(c, 1, 4)) /\ isdigit(SubSeq(c, 6, 7))

\* months[name] = last_modified on a dict kept as its items in insertion order
dict_set(d, k, v) ==
  IF \E i \in 1..Len(d) : d[i][1] = k
    THEN [i \in 1..Len(d) |-> IF d[i][1] = k THEN <<k, v>> ELSE d[i]]
    ELSE Append(d, <<k, v>>)

\* _parse_http_datetime: strptime raises ValueError on a text that is no
\* RFC 1123 date
parse_raises(text) == ~text.ok

parse_http_datetime(text) == text.day

\* _list_month_folders, the loop over the response elements: the months dict,
\* or raised when _parse_http_datetime raises
RECURSIVE parse_folders(_, _)
parse_folders(l, months) ==
  IF l = <<>> THEN [raised |-> FALSE, months |-> months]
  ELSE LET e == Head(l)
       IN  IF ~e.has_href \/ ~e.has_prop THEN parse_folders(Tail(l), months)
           ELSE IF ~is_month_folder(e.name) THEN parse_folders(Tail(l), months)
           ELSE IF parse_raises(e.text) THEN [raised |-> TRUE, months |-> <<>>]
           ELSE parse_folders(Tail(l),
                              dict_set(months, e.name, parse_http_datetime(e.text)))

\* list.sort() on str
RECURSIVE insert_sorted(_, _)
insert_sorted(x, l) ==
  IF l = <<>> THEN <<x>>
  ELSE IF str_lt(Head(l), x) THEN <<Head(l)>> \o insert_sorted(x, Tail(l))
  ELSE <<x>> \o l

RECURSIVE sort(_)
sort(l) ==
  IF l = <<>> THEN <<>> ELSE insert_sorted(Head(l), sort(Tail(l)))

\* last_modified >= cutoff
is_updated(last_modified, cutoff) ==
  last_modified >= cutoff

\* get_updated_months after months = self._list_month_folders()
updated_unsorted(months, cutoff) ==
  LET Keep(kv) == is_updated(kv[2], cutoff)
      kept == SelectSeq(months, Keep)
  IN  [i \in 1..Len(kept) |-> kept[i][1]]

updated_months(months, cutoff) ==
  sort(updated_unsorted(months, cutoff))

FinderIdle ==
  /\ f_pc = "idle"
  /\ f_root = <<>>
  /\ f_now = Today
  /\ f_cutoff = 0
  /\ f_outcome = NoOutcome
  /\ f_requests = 0

\* main() is not running
MainIdle ==
  /\ m_pc = "off"
  /\ m_cmd = "info"
  /\ m_months = <<>>
  /\ m_i = 0
  /\ m_k = 0
  /\ m_log = <<>>
  /\ m_exit = "none"

Init ==
  /\ InitDownloader
  /\ served = RemoteStates
  /\ FinderIdle
  /\ MainIdle

\* the downloader run against a month directory of three expected files
InitFan ==
  /\ InitDownloader
  /\ served = FanStates
  /\ FinderIdle
  /\ MainIdle

\* CNPJMonthFinder after __init__; the remote root directory is any listing
InitFind ==
  /\ InitDownloader
  /\ served = RemoteStates
  /\ month = "2024-01"
  /\ f_pc = "idle"
  /\ f_root \in Listings
  /\ f_now = Today
  /\ f_cutoff = 0
  /\ f_outcome = NoOutcome
  /\ f_requests = 0
  /\ MainIdle

dlVars ==
  <<pc, calls, month, round, attempt, listWaits, resp, lastExc, remote, served, fs, tasks,
    task,
    downloaded, skipped, downloaded_all, skipped_all, outcome, slept, missing,
    listCalls, present0, emptyBodies, hist>>

\* get_updated_months up to the PROPFIND: cutoff = self._cutoff_datetime()
find_call ==
  /\ f_pc = "idle"
  /\ f_cutoff' = f_now - days_window
  /\ f_pc' = "listing"
  /\ UNCHANGED <<f_root, f_now, f_outcome, f_requests>>

FindCall ==
  /\ find_call
  /\ UNCHANGED dlVars
  /\ UNCHANGED mainVars

\* urlopen or ET.fromstring raises: nothing catches it
FindListFail ==
  /\ f_pc = "listing"
  /\ \E exc \in ListExcs : f_outcome' = [kind |-> "error", what |-> exc]
  /\ f_pc' = "done"
  /\ f_requests' = f_requests + 1
  /\ UNCHANGED <<f_root, f_now, f_cutoff>>
  /\ UNCHANGED dlVars
  /\ UNCHANGED mainVars

\* the PROPFIND is answered: the rest of _list_month_folders and of
\* get_updated_months
FindListAnswer ==
  /\ f_pc = "listing"
  /\ LET got == parse_folders(f_root, <<>>)
     IN  f_outcome' = IF got.raised
                        THEN [kind |-> "error", what |-> "ValueError"]
                        ELSE [kind |-> "result",
                              updated |-> updated_months(got.months, f_cutoff)]
  /\ f_pc' = "done"
  /\ f_requests' = f_requests + 1
  /\ UNCHANGED <<f_root, f_now, f_cutoff>>
  /\ UNCHANGED dlVars
  /\ UNCHANGED mainVars

\* ------------------------------------------------------------ CLI driver

\* what sys.argv[1] may be (none: "info")
Commands == {"info", "setup", "download", "extract", "load", "full", "bogus"}

\* the root listings main is run against
MainListings == {l \in Listings : Len(l) <= 2}

\* main, the body of for month in months: the calls of one month, by command
steps_of_loadfirst(cmd) ==
  CASE cmd = "download" -> <<"download_month">>
    [] cmd = "extract"  -> <<"extract_month">>
    [] cmd = "load"     -> <<"load_raw", "load_dim", "build_leads">>
    [] cmd = "full"     -> <<"download_month", "load_raw", "extract_month",
                             "load_dim", "build_leads">>
    [] OTHER            -> <<>>

steps_of(cmd) ==
  CASE cmd = "download" -> <<"download_month">>
    [] cmd = "extract"  -> <<"extract_month">>
    [] cmd = "load"     -> <<"load_raw", "load_dim", "build_leads">>
    [] cmd = "full"     -> <<"download_month", "extract_month", "load_raw",
                             "load_dim", "build_leads">>
    [] OTHER            -> <<>>

\* main has no try: an exception raised by a call leaves main
propagates_never(raised) ==
  FALSE

propagates(raised) ==
  raised

\* main ends: by return, or by the exception that left it
main_ends(how) ==
  /\ m_pc' = "done"
  /\ m_exit' = how

\* main up to months = finder.get_updated_months(): the info and setup
\* commands return before it, full runs warehouse.setup() first
MainStart ==
  /\ m_pc = "start"
  /\ IF m_cmd = "info"
       THEN /\ main_ends("ok")
            /\ UNCHANGED <<m_log, findVars>>
       ELSE IF m_cmd \in {"setup", "full"}
         THEN \E raised \in BOOLEAN :
                /\ m_log' = Append(m_log, <<"setup", "", raised>>)
                /\ IF propagates(raised)
                     THEN /\ main_ends("error")
                          /\ UNCHANGED findVars
                     ELSE IF m_cmd = "setup"
                       THEN /\ main_ends("ok")
                            /\ UNCHANGED findVars
                       ELSE /\ find_call
                            /\ m_pc' = "finding"
                            /\ UNCHANGED m_exit
         ELSE /\ find_call
              /\ m_pc' = "finding"
              /\ UNCHANGED <<m_log, m_exit>>
  /\ UNCHANGED <<m_cmd, m_months, m_i, m_k>>
  /\ UNCHANGED dlVars

\* get_updated_months is over: its exception leaves main, or months is its
\* list; if not months: return
MainMonths ==
  /\ m_pc = "finding"
  /\ f_pc = "done"
  /\ IF f_outcome.kind = "error"
       THEN /\ main_ends("error")
            /\ UNCHANGED <<m_months, m_i, m_k>>
       ELSE IF f_outcome.updated = <<>>
         THEN /\ main_ends("ok")
              /\ UNCHANGED <<m_months, m_i, m_k>>
         ELSE /\ m_months' = f_outcome.updated
              /\ m_i' = 1
              /\ m_k' = 1
              /\ m_pc' = "loop"
              /\ UNCHANGED m_exit
  /\ UNCHANGED m_cmd
  /\ UNCHANGED m_log
  /\ UNCHANGED findVars
  /\ UNCHANGED dlVars

\* the next call of the loop body, for months[m_i]; it returns or raises.
\* A command that is none of the four raises SystemExit in the first iteration
MainStep ==
  /\ m_pc = "loop"
  /\ LET steps == steps_of(m_cmd)
     IN  IF steps = <<>>
           THEN /\ main_ends("error")
                /\ UNCHANGED <<m_log, m_i, m_k>>
           ELSE \E raised \in BOOLEAN :
                  /\ m_log' = Append(m_log, <<steps[m_k], m_months[m_i], raised>>)
                  /\ IF propagates(raised)
                       THEN /\ main_ends("error")
                            /\ UNCHANGED <<m_i, m_k>>
                       ELSE IF m_k < Len(steps)
                         THEN /\ m_k' = m_k + 1
                              /\ UNCHANGED <<m_pc, m_exit, m_i>>
                         ELSE IF m_i < Len(m_months)
                           THEN /\ m_i' = m_i + 1
                                /\ m_k' = 1
                                /\ UNCHANGED <<m_pc, m_exit>>
                           ELSE /\ main_ends("ok")
                                /\ UNCHANGED <<m_i, m_k>>
  /\ UNCHANGED <<m_cmd, m_months>>
  /\ UNCHANGED findVars
  /\ UNCHANGED dlVars

\* main() is started with any command against any root listing
InitMain ==
  /\ InitDownloader
  /\ served = RemoteStates
  /\ month = "2024-01"
  /\ f_pc = "idle"
  /\ f_root \in MainListings
  /\ f_now = Today
  /\ f_cutoff = 0
  /\ f_outcome = NoOutcome
  /\ f_requests = 0
  /\ m_pc = "start"
  /\ m_cmd \in Commands
  /\ m_months = <<>>
  /\ m_i = 0
  /\ m_k = 0
  /\ m_log = <<>>
  /\ m_exit = "none"

\* ------------------------------------------------------- specifications

Next ==
  \/ Call
  \/ ListFail
  \/ ListAnswer
  \/ \E n \in FileNames : XferStart(n)
  \/ \E n \in FileNames : XferConnFail(n)
  \/ \E n \in FileNames : XferBadType(n)
  \/ \E n \in FileNames : XferOk(n)
  \/ \E n \in FileNames : XferMidCaught(n)
  \/ \E n \in FileNames : XferMidOther(n)
  \/ FetchJoin

Spec == Init /\ [][Next]_vars

SpecFan == InitFan /\ [][Next]_vars

NextFind ==
  \/ FindCall
  \/ FindListFail
  \/ FindListAnswer

SpecFind == InitFind /\ [][NextFind]_vars

NextMain ==
  \/ MainStart
  \/ FindListFail
  \/ FindListAnswer
  \/ MainMonths
  \/ MainStep

SpecMain == InitMain /\ [][NextMain]_vars


\* ---------------------------------------------------------------- claims

\* the names of the model that belong to the four datasets and are .zip files
RelevantNames == {"Estabelecimentos0.zip", "Empresas1.ZIP", "Cnaes.zip"}

InRelevantNames(n) == n \in RelevantNames

\* the expected files of a listing, in listing order
Wanted(names) == SelectSeq(names, InRelevantNames)

PathsOf(names) == [i \in 1..Len(names) |-> <<month, names[i]>>]

\* every answered listing of this call showed the directory as it was when
\* the call started
Stable == "remote_changed" \notin hist

ListingGaveUp == outcome.kind = "error" /\ outcome.what = "listing"

Incomplete == outcome.kind = "error" /\ outcome.what = "incomplete"

AllWantedPresentAtStart ==
  \A n \in Range(Wanted(remote)) : <<month, n>> \in present0

\* C1: with a stable listing and every expected file present (size > 0) when
\* download_month is called, no transfer is ever dispatched, the call stays in
\* round 1, and unless a listing call gives up it returns downloaded = [] and
\* skipped = every expected file, after one listing and one re-check.
C1_Idempotent ==
  (pc # "idle" /\ Stable /\ AllWantedPresentAtStart) =>
    /\ tasks = <<>>
    /\ DOMAIN task = {}
    /\ downloaded_all = <<>>
    /\ round = 1
    /\ (pc = "done" /\ ~ListingGaveUp) =>
         /\ outcome = DownloadResult(<<>>, PathsOf(Wanted(remote)))
         /\ listCalls = 2
         /\ slept = 0

C1_Witness ==
  /\ calls = 2
  /\ pc = "done"
  /\ Stable
  /\ AllWantedPresentAtStart
  /\ outcome.kind = "result"
  /\ Len(outcome.skipped) = 2

\* C2: with a stable listing of N expected files, k of them present at the
\* call, no transfer failing for good and no empty body, download_month ends in
\* round 1 with a result, having dispatched exactly the N - k missing files,
\* with those N - k paths downloaded and the k present paths skipped.
C2_SingleRound ==
  (pc = "done" /\ Stable /\ "fetch_failed" \notin hist /\ emptyBodies = 0
     /\ ~ListingGaveUp) =>
    LET want == Wanted(remote)
        had  == {n \in Range(want) : <<month, n>> \in present0}
        lack == Range(want) \ had
    IN  /\ outcome.kind = "result"
        /\ round = 1
        /\ Len(tasks) = Len(want) - Cardinality(had)
        /\ Range(tasks) = lack
        /\ Len(outcome.downloaded) = Len(want) - Cardinality(had)
        /\ Range(outcome.downloaded) = {<<month, n>> : n \in lack}
        /\ Len(outcome.skipped) = Cardinality(had)
        /\ Range(outcome.skipped) = {<<month, n>> : n \in had}

C2_Witness ==
  /\ pc = "done"
  /\ Stable
  /\ "fetch_failed" \notin hist
  /\ emptyBodies = 0
  /\ outcome.kind = "result"
  /\ Len(outcome.skipped) = 1
  /\ Len(outcome.downloaded) = 1
  /\ Len(tasks) = 1

\* C3: download_month never starts a 6th round; when its last re-check found
\* files missing (and no listing call gave up) it has made exactly 5 rounds,
\* 10 listing calls, and ends with the error that names the month; a result is
\* returned only when the re-check found nothing missing.
C3_HardFailure ==
  /\ round <= 5
  /\ listCalls <= 10
  /\ (pc = "done" /\ missing # <<>> /\ ~ListingGaveUp) =>
       /\ outcome = [kind |-> "error", what |-> "incomplete", month |-> month,
                     rounds |-> 5]
       /\ round = 5
       /\ listCalls = 10
  /\ Incomplete => (round = 5 /\ missing # <<>>)
  /\ outcome.kind = "result" => missing = <<>>

C3_Witness ==
  /\ pc = "done"
  /\ Stable
  /\ Incomplete
  /\ outcome.month = month
  /\ round = 5
  /\ Len(missing) = 1


\* C4 (as claimed): a transfer attempt that failed, or a fetch that failed for
\* good, leaves no file of nonzero size at the target path.
C4_NoPartialFile ==
  \A n \in DOMAIN task :
    (task[n].st = "err" \/ (task[n].st = "running" /\ task[n].attempt > 1)) =>
      ~HasContent(fs[<<month, n>>])

\* C5: when download_month returns a result, every expected file of the
\* listing its last re-check used exists locally with size > 0.
C5_CompleteOnSuccess ==
  (pc = "done" /\ outcome.kind = "result") =>
    /\ Wanted(resp) # <<>>
    /\ \A n \in Range(Wanted(resp)) : HasContent(fs[<<month, n>>])

\* a result with both a file downloaded by this call and a local file the
\* final listing no longer names
C5_Witness ==
  /\ pc = "done"
  /\ outcome.kind = "result"
  /\ Len(outcome.downloaded) = 2
  /\ \E p \in Paths : HasContent(fs[p]) /\ p[2] \notin Range(resp)

MonthNames == {"2023-12", "2024-01"}

Qualifies(e) ==
  /\ e.name \in MonthNames
  /\ e.has_href
  /\ e.has_prop
  /\ e.text.ok
  /\ e.text.day >= f_now - 15

BadDate ==
  \E i \in 1..Len(f_root) :
    /\ f_root[i].name \in MonthNames
    /\ f_root[i].has_href
    /\ f_root[i].has_prop
    /\ ~f_root[i].text.ok

\* C7: get_updated_months returns exactly the children of shape NNNN-NN whose
\* last-modified is >= now - days_window, each once, ascending; other names
\* are ignored without error; when the listing fails (or a month's date cannot
\* be parsed) an error propagates and no list is returned.
C7_UpdatedMonths ==
  f_pc = "done" =>
    /\ f_outcome.kind \in {"result", "error"}
    /\ f_outcome.kind = "result" =>
         /\ f_outcome.updated \in
              {<<>>, <<"2023-12">>, <<"2024-01">>, <<"2023-12", "2024-01">>}
         /\ Range(f_outcome.updated) =
              {f_root[i].name : i \in {j \in 1..Len(f_root) : Qualifies(f_root[j])}}
    /\ f_outcome.kind = "error" =>
         /\ DOMAIN f_outcome = {"kind", "what"}
         /\ f_outcome.what = "ValueError" => BadDate

C7_Witness ==
  /\ f_pc = "done"
  /\ f_outcome.kind = "result"
  /\ f_outcome.updated = <<"2023-12", "2024-01">>
  /\ Len(f_root) = 3
  /\ f_root[1].name = "2024-01"
  /\ f_root[1].text.day = f_now - 15
  /\ f_root[2].name = "202a-01"
  /\ ~f_root[2].text.ok

\* C8: the expected files built from an answer are exactly its names that end
\* in .zip (any case) and start with one of the four prefixes; no task, no
\* skipped or downloaded path and no local file ever has another name.
C8_RelevanceFilter ==
  /\ \A m \in Months, r \in AllRemoteStates :
       ZipNamesOf[m, r] = Wanted(hrefs_of(m, r))
  /\ Range(tasks) \cup DOMAIN task \subseteq RelevantNames
  /\ \A p \in Range(skipped) \cup Range(skipped_all) \cup Range(downloaded)
               \cup Range(downloaded_all) : p[2] \in RelevantNames
  /\ \A p \in Paths : fs[p].exists => p[2] \in RelevantNames
  /\ pc = "fetch" =>
       Range(tasks) \cup {p[2] : p \in Range(skipped)} = Range(Wanted(resp))

C8_Witness ==
  /\ pc = "fetch"
  /\ resp = <<month, "Estabelecimentos0.zip", "readme.txt", "Empresas1.ZIP",
              "notes.zip", "empresas.csv">>
  /\ tasks = <<"Estabelecimentos0.zip", "Empresas1.ZIP">>
  /\ Running = {"Estabelecimentos0.zip", "Empresas1.ZIP"}

\* C9: the waits of a listing call are 3, 12, 27, 48, one after each failed
\* attempt 1..4 (none after the 5th), and a listing call returns the names of
\* the answer of its last attempt.
BackoffTable == <<3, 12, 27, 48>>

WaitsLaw ==
  /\ Len(listWaits) <= 4
  /\ \A i \in 1..Len(listWaits) : listWaits[i] = BackoffTable[i]
  /\ InListing => (attempt \in 1..5 /\ Len(listWaits) = attempt - 1)

ListingReturns ==
  /\ InListing
  /\ \/ pc' = "fetch"
     \/ listCalls' = listCalls + 1
     \/ (pc' = "done" /\ outcome'.kind = "result")
     \/ (pc' = "done" /\ outcome'.kind = "error" /\ outcome'.what = "incomplete")

C9_Backoff ==
  /\ []WaitsLaw
  /\ [][ListingReturns =>
          /\ resp' = hrefs_of(month, remote')
          /\ pc' = "fetch" =>
               Range(tasks') \cup {p[2] : p \in Range(skipped')}
                 = Range(Wanted(hrefs_of(month, remote')))]_vars

C9_Witness ==
  /\ InListing
  /\ attempt = 5
  /\ listWaits = <<3, 12, 27, 48>>

\* C10: an answer without relevant .zip names counts as a failed attempt and
\* is retried; a listing call never returns an empty list; after 5 failed
\* attempts the listing error names the month and carries the last cause.
C10_EmptyNotTrusted ==
  /\ lastExc = "NoZips" => Wanted(resp) = <<>>
  /\ (InListing /\ lastExc # "") => (attempt >= 2 /\ Len(listWaits) = attempt - 1)
  /\ pc = "fetch" => (tasks # <<>> /\ Wanted(resp) # <<>>)
  /\ (pc = "done" /\ ~ListingGaveUp) => Wanted(resp) # <<>>
  /\ (outcome.kind = "error" /\ outcome.what = "listing") =>
       /\ pc = "done"
       /\ attempt = 5
       /\ Len(listWaits) = 4
       /\ outcome.month = month
       /\ outcome.cause = lastExc
       /\ lastExc \in {"URLError", "ParseError", "NoZips"}

C10_Witness ==
  /\ pc = "done"
  /\ ListingGaveUp
  /\ outcome.cause = "NoZips"
  /\ outcome.month = month
  /\ Len(resp) = 2

\* the calls main made for the months (warehouse.setup() left out)
MonthCalls == SelectSeq(m_log, LAMBDA e : e[1] # "setup")

\* what each command calls per month, in order
CmdSteps ==
  [c \in Commands |->
     IF c = "download" THEN <<"download_month">>
     ELSE IF c = "extract" THEN <<"extract_month">>
     ELSE IF c = "load" THEN <<"load_raw", "load_dim", "build_leads">>
     ELSE IF c = "full" THEN <<"download_month", "extract_month", "load_raw",
                               "load_dim", "build_leads">>
     ELSE <<>>]

\* the i-th call of a run that goes through every month of months
PlannedCall(i) ==
  LET n == Len(CmdSteps[m_cmd])
  IN  <<CmdSteps[m_cmd][((i - 1) % n) + 1], m_months[((i - 1) \div n) + 1]>>

\* C11: main processes the months one after another in the finder's ascending
\* order, each month's calls in the order download, extract, load_raw,
\* load_dim, build_leads (those the command has); a call that raises, a
\* download_month above all, is the last call of the run: nothing more is
\* called for that month or for a later one, and main ends with the error.
C11_FatalDownload ==
  /\ m_months \in {<<>>, <<"2023-12">>, <<"2024-01">>, <<"2023-12", "2024-01">>}
  /\ m_pc \in {"loop", "done"} /\ f_outcome.kind = "result" /\ m_months # <<>>
       => m_months = f_outcome.updated
  /\ \A i \in 1..Len(MonthCalls) :
       /\ i <= Len(CmdSteps[m_cmd]) * Len(m_months)
       /\ <<MonthCalls[i][1], MonthCalls[i][2]>> = PlannedCall(i)
  /\ \A i \in 1..Len(m_log) :
       m_log[i][3] => /\ i = Len(m_log)
                      /\ m_pc = "done"
                      /\ m_exit = "error"
  /\ m_exit = "ok" =>
       /\ m_pc = "done"
       /\ Len(MonthCalls) = Len(CmdSteps[m_cmd]) * Len(m_months)

\* the full command, two months, the second month's download raises
C11_Witness ==
  /\ m_cmd = "full"
  /\ m_pc = "done"
  /\ m_exit = "error"
  /\ m_months = <<"2023-12", "2024-01">>
  /\ f_root[1].name = "2024-01"
  /\ Len(m_log) = 7
  /\ m_log[7] = <<"download_month", "2024-01", TRUE>>

\* at the diff of a round: what is dispatched is not present, what is skipped is
DiffLaw ==
  /\ \A p \in Range(skipped) \cup Range(skipped_all) : HasContent(fs[p])
  /\ pc = "fetch" =>
       /\ \A n \in DOMAIN task :
            task[n].st = "queued" => ~HasContent(fs[<<month, n>>])
       /\ \A p \in Range(skipped) : p[2] \notin Range(tasks)
       /\ Range(tasks) \cup {p[2] : p \in Range(skipped)} = Range(Wanted(resp))
       /\ DOMAIN task = Range(tasks)

\* C12: in every round a transfer is dispatched only for expected files that
\* are absent or empty at the round's diff, the expected files present at the
\* diff are the round's skipped, and a file that is present (exists, size > 0)
\* is never written or removed by any step, in that round or a later one.
C12_NoRetransfer ==
  /\ []DiffLaw
  /\ [][\A p \in Paths : HasContent(fs[p]) => fs'[p] = fs[p]]_vars

\* round 2 skips a file that round 1 downloaded while the other is in transfer
C12_Witness ==
  /\ pc = "fetch"
  /\ round = 2
  /\ Len(skipped) = 1
  /\ skipped[1] \notin present0
  /\ HasContent(fs[skipped[1]])
  /\ Cardinality(Running) = 1

\* C13: at every moment at most max_workers (2) transfers are in flight,
\* however many files are missing, and a round dispatches exactly one task
\* per expected file that its diff found missing.
C13_BoundedFanOut ==
  /\ Cardinality(Running) <= 2
  /\ pc # "fetch" => Running = {}
  /\ pc = "fetch" =>
       /\ \A i, j \in 1..Len(tasks) : i # j => tasks[i] # tasks[j]
       /\ DOMAIN task = Range(tasks)
       /\ Range(tasks) =
            {n \in Range(Wanted(resp)) : <<month, n>> \notin Range(skipped)}
       /\ Len(tasks) + Len(skipped) = Len(Wanted(resp))

\* three files missing: two in transfer, the third waits for a worker
C13_Witness ==
  /\ pc = "fetch"
  /\ Len(tasks) = 3
  /\ Cardinality(Running) = 2
  /\ \E n \in DOMAIN task : task[n].st = "queued"

\* transfers exist only while _download_once is inside its executor block
NoStrayTransfer ==
  pc # "fetch" => (Running = {} /\ DOMAIN task = {})

\* a step that leaves the executor block (towards the re-check)
LeavesFetch == pc = "fetch" /\ pc' # "fetch"

\* C14: the re-check of a round starts only when every task dispatched in the
\* round has succeeded or failed for good; a round's listing starts only from
\* the finished re-check of the round before (or from the call, for round 1);
\* no transfer runs during a listing or in another round than its own.
C14_RoundBarrier ==
  /\ []NoStrayTransfer
  /\ [][LeavesFetch =>
          /\ \A n \in DOMAIN task : task[n].st \in {"ok", "err"}
          /\ DOMAIN task = Range(tasks)
          /\ pc' = "find_list"
          /\ round' = round]_vars
  /\ [][round' # round =>
          \/ pc \in {"idle", "done"} /\ pc' = "once_list" /\ round' = 1
          \/ /\ pc = "find_list" /\ pc' = "once_list"
             /\ round' = round + 1 /\ missing' # <<>>]_vars
  /\ [][pc' = "fetch" /\ pc # "fetch" =>
          /\ pc = "once_list"
          /\ \A n \in DOMAIN task' : task'[n].st = "queued"]_vars

\* round 2's re-check is running after both transfers of the round ended, one
\* of them for good without success
C14_Witness ==
  /\ pc = "find_list"
  /\ round = 2
  /\ Len(tasks) = 2
  /\ "fetch_failed" \in hist
  /\ Len(downloaded_all) >= 1

\* a step in which a listing call raises its final error
ListingGivesUp ==
  /\ InListing
  /\ outcome'.kind = "error"
  /\ outcome'.what = "listing"

\* C15: when a listing call has used up its 5 attempts, download_month ends at
\* once with that error: it makes no further listing call, dispatches no
\* transfer, starts no other round and touches no file, whether the listing
\* was the round's first or the one of the re-check.
C15_ListingAborts ==
  /\ [](ListingGaveUp => /\ pc = "done"
                         /\ DOMAIN task = {}
                         /\ attempt = 5
                         /\ outcome.month = month
                         /\ listCalls \in {2 * round - 1, 2 * round})
  /\ [][ListingGivesUp =>
          /\ attempt = 5
          /\ pc' = "done"
          /\ round' = round
          /\ listCalls' = listCalls
          /\ tasks' = tasks
          /\ task' = task
          /\ fs' = fs
          /\ downloaded_all' = downloaded_all]_vars
  /\ [][ListingGaveUp => (calls' = calls + 1 /\ pc' = "once_list")]_vars

\* the listing of the first round's re-check gives up after two transfers
C15_Witness ==
  /\ pc = "done"
  /\ ListingGaveUp
  /\ outcome.cause = "URLError"
  /\ round = 1
  /\ listCalls = 2
  /\ Len(tasks) = 2
  /\ Len(downloaded_all) = 2

\* C16 (as claimed): when the executor block of a round is left, every task
\* that failed for good (with whatever exception) has its path out of the
\* round's downloaded list and its file missing (absent or empty), so that
\* the re-check reports it and the next round dispatches it again.
C16_FailedStaysMissing ==
  [][LeavesFetch =>
       \A n \in DOMAIN task :
         task[n].st = "err" =>
           /\ <<month, n>> \notin Range(downloaded)
           /\ ~HasContent(fs[<<month, n>>])
           /\ ~HasContent(fs'[<<month, n>>])]_vars

\* the waits of a _download_file call that is at its attempt a
FileWaits == <<3, 12>>

AttemptLaw ==
  \A n \in DOMAIN task :
    task[n].st = "running" =>
      /\ task[n].attempt \in 1..3
      /\ task[n].waits = SubSeq(FileWaits, 1, task[n].attempt - 1)

\* an attempt of n's _download_file that fails with a transport failure the
\* call retries (URLError, TimeoutError, ConnectionResetError) or with a
\* content type without "zip"
FailedAttempt(n) ==
  XferConnFail(n) \/ XferBadType(n) \/ XferMidCaught(n)

C18_SleepOnlyBetweenRounds ==
  pc # "idle" =>
    /\ slept = round - 1
    /\ Incomplete => slept = 4
    /\ outcome.kind = "result" => slept = round - 1

\* get_updated_months ended with the error of a failed root listing request
RootListingFailed ==
  /\ f_pc = "done"
  /\ f_outcome.kind = "error"
  /\ f_outcome.what \in ListExcs

\* C19 (as claimed): a failed root listing request is retried, and
\* get_updated_months fails with a listing error only when 5 requests have
\* failed.
C19_FinderRetries ==
  RootListingFailed => f_requests = 5

\* C20 (as claimed): in every result of download_month no path is both
\* downloaded and skipped, no path is downloaded twice, and with a stable
\* listing of N expected files downloaded and skipped have N paths together.
C20_ConsistentResult ==
  (pc = "done" /\ outcome.kind = "result") =>
    LET d == outcome.downloaded
        k == outcome.skipped
    IN  /\ Range(d) \cap Range(k) = {}
        /\ \A i, j \in 1..Len(d) : i # j => d[i] # d[j]
        /\ Stable => Len(d) + Len(k) = Len(Wanted(remote))

\* C21 (as claimed): a fetch that returned without error, and so every path
\* just appended to the round's downloaded list, has its file there with
\* size > 0; an accepted answer with an empty body is not a success.
C21_SuccessLeavesFile ==
  pc = "fetch" =>
    /\ \A n \in DOMAIN task :
         task[n].st = "ok" => HasContent(fs[<<month, n>>])
    /\ \A p \in Range(downloaded) : HasContent(fs[p])

====
